---- MODULE Spec2Model ----
(***************************************************************************)
(* Model of the blog server's query layer (tech-assignment-blog-server,    *)
(* index.mjs): the in-memory array `posts` imported from data/posts.json   *)
(* and the four GET handlers that read (and, while stripping `html`,       *)
(* write) it.                                                              *)
(*                                                                         *)
(* A post is a record whose DOMAIN is the set of own keys of the JS        *)
(* object, so `delete post.html` is the removal of a key.  `html` values   *)
(* are strings modelled as sequences of one-character strings, so that     *)
(* JSON.stringify is computed, not assumed.  Array elements are object     *)
(* references: an array produced by slice/filter is a sequence of indices  *)
(* into `posts`, so a delete through it is visible in the shared store.    *)
(***************************************************************************)
EXTENDS Integers, Sequences, FiniteSets, TLC

VARIABLES dataset, posts, response

vars == <<dataset, posts, response>>

-----------------------------------------------------------------------------
(* Bounds of the model. *)

MaxPosts == 41      \* the largest dataset (three pages at limit 20)
MaxStride == 2      \* category layouts of the generated datasets
MaxNegPage == 1     \* requested pages -MaxNegPage..MaxPage (the route takes any)
MaxPage == 3

-----------------------------------------------------------------------------
(* Program constants. *)

limit == 20

DefaultCategory == "Uncategorized"

-----------------------------------------------------------------------------
(* Generic helpers. *)

Min(a, b) == IF a < b THEN a ELSE b

Max(a, b) == IF a > b THEN a ELSE b

\* Math.ceil(n / d) for n >= 0, d > 0
CeilDivFloor(n, d) == n \div d

CeilDiv(n, d) == (n + d - 1) \div d

\* relative index resolution of Array.prototype.slice
RelIndex(k, len) == IF k < 0 THEN Max(len + k, 0) ELSE Min(k, len)

SliceInclusiveEnd(arr, start, end) ==
    LET from == RelIndex(start, Len(arr))
        to == RelIndex(end + 1, Len(arr))
    IN IF from >= to THEN <<>> ELSE [j \in 1..(to - from) |-> arr[from + j]]

\* arr.slice(start, end): 0-based, end exclusive, negative indices from the end
Slice(arr, start, end) ==
    LET from == RelIndex(start, Len(arr))
        to == RelIndex(end, Len(arr))
    IN IF from >= to THEN <<>> ELSE [j \in 1..(to - from) |-> arr[from + j]]

Range(s) == {s[i] : i \in DOMAIN s}

\* [...new Set(arr)]: first occurrence of each value, insertion order
UniqueKeepAll(arr) == arr

Unique(arr) ==
    LET firsts == SelectSeq([i \in 1..Len(arr) |-> i],
                            LAMBDA i : \A j \in 1..(i - 1) : arr[j] # arr[i])
    IN [k \in 1..Len(firsts) |-> arr[firsts[k]]]

-----------------------------------------------------------------------------
(* Post objects. *)

KeepHtml(post) == post

\* delete post.html
DeleteHtml(post) == [k \in DOMAIN post \ {"html"} |-> post[k]]

\* post.category || "Uncategorized": undefined and "" are falsy
CategoryOrDefault(post) ==
    IF "category" \in DOMAIN post /\ post.category # ""
    THEN post.category ELSE DefaultCategory

CategoryDefaulted(post, category) == CategoryOrDefault(post) = category

\* post.category === category (undefined for a missing key equals no string)
CategoryMatches(post, category) ==
    "category" \in DOMAIN post /\ post.category = category

\* the escapes JSON.stringify applies inside a string literal
EscapeChar(c) ==
    IF c = "\"" THEN <<"\\", "\"">>
    ELSE IF c = "\\" THEN <<"\\", "\\">>
    ELSE IF c = "\n" THEN <<"\\", "n">>
    ELSE <<c>>

RECURSIVE Escape(_)
Escape(s) == IF s = <<>> THEN <<>> ELSE EscapeChar(Head(s)) \o Escape(Tail(s))

\* JSON.stringify(s) of a string s: the quoted, escaped JSON literal
JSONStringify(s) == <<"\"">> \o Escape(s) \o <<"\"">>

-----------------------------------------------------------------------------
(* The bundled dataset (data/posts.json): generated families of datasets.  *)

NoCategory == "<no category key>"

MinorCategories == <<NoCategory, "", "Uncategorized", "tech", "Tech">>

DominantCategories == {"Tech", NoCategory}

HtmlSamples ==
    << <<"<", "p", ">", "a", "<", "/", "p", ">">>,
       <<"<", "a", " ", "h", "=", "\"", "x", "\"", ">">>,
       <<"a", "\\", "b", "\n">>,
       <<>> >>

Titles == <<"First Blog Post", "Second Blog Post">>

LayoutCategory(i, stride, dom) ==
    IF i % stride = 0
    THEN MinorCategories[((i \div stride) % Len(MinorCategories)) + 1]
    ELSE dom

MakePost(i, cat) ==
    LET base == [id |-> ToString(i),
                 title |-> Titles[(i % Len(Titles)) + 1],
                 html |-> HtmlSamples[(i % Len(HtmlSamples)) + 1]]
    IN IF cat = NoCategory THEN base
       ELSE [k \in DOMAIN base \cup {"category"} |->
                IF k = "category" THEN cat ELSE base[k]]

MakeDataset(n, stride, dom) ==
    [i \in 1..n |-> MakePost(i, LayoutCategory(i, stride, dom))]

\* dataset sizes around the page boundaries of limit 20
DatasetSizes ==
    {0, 1, limit, limit + 1, 2 * limit, MaxPosts}

Datasets ==
    {MakeDataset(n, stride, dom) :
        n \in DatasetSizes, stride \in 1..MaxStride, dom \in DominantCategories}

\* request parameters: Express route parameters are non-empty strings
RequestPages == (0 - MaxNegPage)..MaxPage

RequestCategories == {"Tech", "tech", "Uncategorized", "Health"}

RequestIds == {ToString(i) : i \in {0, 1, limit + 1, MaxPosts, MaxPosts + 1}}

-----------------------------------------------------------------------------
(* The handlers, as functions from the store (and the route parameters)    *)
(* to the store after the handler and the JSON response.                   *)

Refs(store) == [i \in 1..Len(store) |-> i]

\* refs.map((post) => { delete post.html; return post; }) on the shared store
StripAll(store, refs) ==
    [i \in 1..Len(store) |->
        IF i \in Range(refs) THEN DeleteHtml(store[i]) ELSE store[i]]

Deref(store, refs) == [j \in 1..Len(refs) |-> store[refs[j]]]

GetAllCategories(store) ==
    LET categories ==
            Unique([i \in 1..Len(store) |-> CategoryOrDefault(store[i])])
    IN [store |-> store,
        res |-> [op |-> "GetAllCategories", status |-> 200, body |-> categories]]

GetPaginatedPosts(store, page) ==
    LET startIndex == (page - 1) * limit
        endIndex == startIndex + limit
        sliced == Slice(Refs(store), startIndex, endIndex)
        after == StripAll(store, sliced)
    IN [store |-> after,
        res |-> [op |-> "GetPaginatedPosts", status |-> 200,
                 body |-> [page |-> page,
                           limit |-> limit,
                           totalPosts |-> Len(store),
                           totalPages |-> CeilDiv(Len(store), limit),
                           posts |-> Deref(after, sliced)]]]

FilterRefsIgnoreCase(store, category) ==
    SelectSeq(Refs(store), LAMBDA i :
        \/ CategoryMatches(store[i], category)
        \/ CategoryMatches(store[i], "Tech") /\ category = "tech"
        \/ CategoryMatches(store[i], "tech") /\ category = "Tech")

\* posts.filter((post) => post.category === category)
FilterRefs(store, category) ==
    SelectSeq(Refs(store), LAMBDA i : CategoryMatches(store[i], category))

GetPaginatedPostsByCategory(store, category, page) ==
    LET filteredPosts == FilterRefs(store, category)
        startIndex == (page - 1) * limit
        endIndex == startIndex + limit
        paginatedPosts == Slice(filteredPosts, startIndex, endIndex)
        after == StripAll(store, paginatedPosts)
    IN [store |-> after,
        res |-> [op |-> "GetPaginatedPostsByCategory", status |-> 200,
                 body |-> [category |-> category,
                           page |-> page,
                           limit |-> limit,
                           totalPosts |-> Len(filteredPosts),
                           totalPages |-> CeilDiv(Len(filteredPosts), limit),
                           posts |-> Deref(after, paginatedPosts)]]]

FindFirst(store, id) == IF Len(store) = 0 THEN 0 ELSE 1

\* posts.find((p) => p.id === id): index of the first match, 0 for undefined
Find(store, id) ==
    LET hits == {i \in 1..Len(store) : store[i].id = id}
    IN IF hits = {} THEN 0 ELSE CHOOSE i \in hits : \A j \in hits : i <= j

\* { ...post, html: JSON.stringify(post.html) } as serialised by res.json:
\* JSON.stringify(undefined) is undefined, and a key whose value is
\* undefined is left out of the JSON text
PostWithHtml(post) ==
    IF "html" \in DOMAIN post
    THEN [post EXCEPT !.html = JSONStringify(post.html)]
    ELSE post

GetPostById(store, id) ==
    LET found == Find(store, id)
    IN IF found = 0
       THEN [store |-> store,
             res |-> [op |-> "GetPostById", id |-> id, status |-> 404,
                      body |-> [error |-> "Post not found"]]]
       ELSE [store |-> store,
             res |-> [op |-> "GetPostById", id |-> id, status |-> 200,
                      body |-> PostWithHtml(store[found])]]

-----------------------------------------------------------------------------
(* The state machine. *)

Init ==
    /\ dataset \in Datasets
    /\ posts = dataset
    /\ response = [op |-> "none"]

ListCategories ==
    LET r == GetAllCategories(posts)
    IN /\ posts' = r.store
       /\ response' = r.res
       /\ UNCHANGED dataset

Paginate ==
    \E page \in RequestPages :
        LET r == GetPaginatedPosts(posts, page)
        IN /\ posts' = r.store
           /\ response' = r.res
           /\ UNCHANGED dataset

PaginateByCategory ==
    \E category \in RequestCategories, page \in RequestPages :
        LET r == GetPaginatedPostsByCategory(posts, category, page)
        IN /\ posts' = r.store
           /\ response' = r.res
           /\ UNCHANGED dataset

GetById ==
    \E id \in RequestIds :
        LET r == GetPostById(posts, id)
        IN /\ posts' = r.store
           /\ response' = r.res
           /\ UNCHANGED dataset

Next == ListCategories \/ Paginate \/ PaginateByCategory \/ GetById

Spec == Init /\ [][Next]_vars

-----------------------------------------------------------------------------
(* Vocabulary of the properties, defined on the dataset as loaded.         *)

\* the list-view projection of a record: the record without its html key
WithoutHtml(post) == [k \in DOMAIN post \ {"html"} |-> post[k]]

\* the least k with k * limit >= n
PagesFor(n) == CHOOSE k \in 0..n : k * limit >= n /\ (k = 0 \/ (k - 1) * limit < n)

\* elements (page-1)*limit+1 .. page*limit (1-based) of s, for page >= 1
PageOf(s, page) ==
    LET first == (page - 1) * limit + 1
        last == Min(page * limit, Len(s))
    IN IF first > last THEN <<>> ELSE [j \in 1..(last - first + 1) |-> s[first + j - 1]]

HasNoCategory(post) == "category" \notin DOMAIN post \/ post.category = ""

CategoryName(post) == IF HasNoCategory(post) THEN "Uncategorized" ELSE post.category

FirstSeen(name) ==
    CHOOSE i \in 1..Len(dataset) :
        /\ CategoryName(dataset[i]) = name
        /\ \A j \in 1..(i - 1) : CategoryName(dataset[j]) # name

HasCategory(post, c) == "category" \in DOMAIN post /\ post.category = c

DatasetIndexOf(id) == CHOOSE i \in 1..Len(dataset) : dataset[i].id = id

\* the posts served by requesting pages p..last one after the other
RECURSIVE Crawl(_, _, _)
Crawl(store, p, last) ==
    IF p > last THEN <<>>
    ELSE LET r == GetPaginatedPosts(store, p)
         IN r.res.body.posts \o Crawl(r.store, p + 1, last)

IsPaginate == response.op = "GetPaginatedPosts"

IsByCategory == response.op = "GetPaginatedPostsByCategory"

IsGetById == response.op = "GetPostById"

IsCategories == response.op = "GetAllCategories"

-----------------------------------------------------------------------------
(* Properties. *)

\* C1: no request changes the Post Store: in every reachable state every
\* record of the collection has the fields and values, html included, that
\* it had at startup.
C1_StoreNeverChanged == posts = dataset

\* C2: GetById for an existing id returns a record that includes the html
\* field, also after earlier Paginate / PaginateByCategory requests whose
\* pages contained that post.
C2_GetByIdIncludesHtml ==
    (IsGetById /\ response.status = 200) => "html" \in DOMAIN response.body

\* C3: from every reachable state, the posts of Paginate(1), ...,
\* Paginate(totalPages) concatenated are the whole collection, each post
\* exactly once, in dataset order (as list-view records, without html).
C3_PagesConcatenate ==
    Crawl(posts, 1, GetPaginatedPosts(posts, 1).res.body.totalPages)
        = [i \in 1..Len(dataset) |-> WithoutHtml(dataset[i])]

\* the last page of a three-page collection has just been served, after
\* page 1 had been served
C3_Witness ==
    /\ IsPaginate
    /\ response.body.totalPages = 3
    /\ response.body.page = 3
    /\ response.body.posts # <<>>
    /\ \A i \in 1..limit : "html" \notin DOMAIN posts[i]

\* C4: for page >= 1, Paginate(page) reports totalPosts = collection size,
\* totalPages = ceil(totalPosts / 20) and returns exactly
\* min(20, max(0, totalPosts - (page-1)*20)) posts; beyond the last page
\* posts is empty and the totals are the same.
C4_PaginateCounts ==
    (IsPaginate /\ response.body.page >= 1) =>
        /\ response.status = 200
        /\ response.body.limit = 20
        /\ response.body.totalPosts = Len(dataset)
        /\ response.body.totalPages = PagesFor(Len(dataset))
        /\ Len(response.body.posts)
             = Min(20, Max(0, Len(dataset) - (response.body.page - 1) * 20))
        /\ (response.body.page > response.body.totalPages
               => response.body.posts = <<>>)

\* a page beyond the last one of a collection that is not a whole number
\* of pages
C4_Witness ==
    /\ IsPaginate
    /\ Len(dataset) = limit + 1
    /\ response.body.page = 3
    /\ response.body.totalPages = 2
    /\ response.body.posts = <<>>

C6_CategoriesUniqueFirstSeen ==
    IsCategories =>
        LET cats == response.body
        IN /\ response.status = 200
           /\ Range(cats) = {CategoryName(dataset[i]) : i \in 1..Len(dataset)}
           /\ \A i, j \in 1..Len(cats) : i # j => cats[i] # cats[j]
           /\ \A i, j \in 1..Len(cats) :
                  i < j => FirstSeen(cats[i]) < FirstSeen(cats[j])

\* several posts without a category, with an empty category and with the
\* literal category "Uncategorized", and other categories besides
C6_Witness ==
    /\ IsCategories
    /\ Cardinality({i \in 1..Len(dataset) : "category" \notin DOMAIN dataset[i]}) >= 2
    /\ \E i \in 1..Len(dataset) : HasCategory(dataset[i], "")
    /\ \E i \in 1..Len(dataset) : HasCategory(dataset[i], "Uncategorized")
    /\ Len(response.body) >= 3
    /\ Cardinality({i \in 1..Len(response.body) : response.body[i] = "Uncategorized"}) = 1

\* C7: no post in the posts array of a Paginate or PaginateByCategory
\* response has an html field, whatever the page and category.
C7_ListViewsLackHtml ==
    (IsPaginate \/ IsByCategory) =>
        \A j \in 1..Len(response.body.posts) :
            "html" \notin DOMAIN response.body.posts[j]

\* a non-empty page whose posts had html in the store until this request
C7_Witness ==
    /\ IsPaginate
    /\ response.body.page = 2
    /\ response.body.posts # <<>>
    /\ \A i \in 1..limit : "html" \in DOMAIN posts[i]

\* C8: GetById answers 404 with the NotFound error exactly when no record
\* has the requested id; otherwise 200 with the one record whose id is
\* exactly the requested id.
C8_GetByIdExactMatch ==
    IsGetById =>
        LET hits == {i \in 1..Len(dataset) : dataset[i].id = response.id}
        IN /\ response.status \in {200, 404}
           /\ response.status = 404 <=> hits = {}
           /\ response.status = 404 => response.body = [error |-> "Post not found"]
           /\ response.status = 200 =>
                 /\ Cardinality(hits) = 1
                 /\ response.body.id = response.id
                 /\ WithoutHtml(response.body)
                      = WithoutHtml(dataset[DatasetIndexOf(response.id)])

\* a post that is not the first of the collection is found
C8_Witness ==
    /\ IsGetById
    /\ response.status = 200
    /\ response.id = ToString(limit + 1)
    /\ response.body.id = ToString(limit + 1)

\* C9: the html of a GetById response is the markup string stored for that
\* post at startup, untransformed.
C9_HtmlIsStoredHtml ==
    (IsGetById /\ response.status = 200) =>
        /\ "html" \in DOMAIN response.body
        /\ response.body.html = dataset[DatasetIndexOf(response.id)].html

\* C10: a post whose category is missing or empty is in no PaginateByCategory
\* response; ListCategories reports such posts under "Uncategorized", while
\* PaginateByCategory("Uncategorized", p) counts and returns only the posts
\* whose stored category is the literal string "Uncategorized".
C10_UncategorizedNotServedByCategory ==
    /\ IsByCategory =>
          /\ \A j \in 1..Len(response.body.posts) :
                ~HasNoCategory(dataset[DatasetIndexOf(response.body.posts[j].id)])
          /\ response.body.category = "Uncategorized" =>
                /\ response.body.totalPosts
                     = Cardinality({i \in 1..Len(dataset) :
                                      HasCategory(dataset[i], "Uncategorized")})
                /\ \A j \in 1..Len(response.body.posts) :
                      HasCategory(dataset[DatasetIndexOf(response.body.posts[j].id)],
                                  "Uncategorized")
    /\ (IsCategories /\ \E i \in 1..Len(dataset) : HasNoCategory(dataset[i]))
          => "Uncategorized" \in Range(response.body)

\* "Uncategorized" is requested from a dataset with posts without a
\* category and posts of the literal category "Uncategorized"
C10_Witness ==
    /\ IsByCategory
    /\ response.body.category = "Uncategorized"
    /\ response.body.page = 1
    /\ response.body.posts # <<>>
    /\ response.body.totalPosts
         < Cardinality({i \in 1..Len(dataset) : CategoryName(dataset[i]) = "Uncategorized"})

====
